---- MODULE Spec2Model ----
(***************************************************************************)
(* pytest-param-files: the fixture-file engine of                          *)
(* src/pytest_param_files/main.py.                                         *)
(*                                                                         *)
(* A Python str is a sequence of one-character strings.  The alphabet is   *)
(* the letter "a", the space, the two line boundaries "\n" and "\f" (form  *)
(* feed: str.splitlines splits on it, str.rstrip strips it, and text-mode  *)
(* reading does not translate it), the period, the two brackets, and a     *)
(* lone surrogate: a character a str can hold and no write can encode.     *)
(***************************************************************************)
EXTENDS Integers, Sequences, FiniteSets, TLC

NL == "\n"
FF == "\f"
SP == " "
DOT == "."
SUR == "U+D800"

\* ---------------------------------------------------------------------------
\* Python str methods used by main.py
\* ---------------------------------------------------------------------------

\* str.isspace() of one character
isspace(c) == c \in {SP, NL, FF}

\* the line boundaries of str.splitlines()
islinebreak(c) == c \in {NL, FF}

RECURSIVE rstrip(_)
rstrip(s) ==
    IF s = <<>> THEN s
    ELSE IF isspace(s[Len(s)]) THEN rstrip(SubSeq(s, 1, Len(s) - 1))
    ELSE s

RECURSIVE lstrip(_)
lstrip(s) ==
    IF s = <<>> THEN s
    ELSE IF isspace(s[1]) THEN lstrip(Tail(s))
    ELSE s

strip(s) == lstrip(rstrip(s))

\* a slip: the check of the last character always fails
endswith_never(s, c) == FALSE

endswith(s, c) == s # <<>> /\ s[Len(s)] = c

\* s.encode(encoding) succeeds: what Path.write_text needs after it has
\* opened, and so emptied, the file
encodable(s) == \A i \in 1..Len(s) : s[i] # SUR

\* sep.join(parts)
RECURSIVE join(_, _)
join(sep, parts) ==
    IF parts = <<>> THEN <<>>
    ELSE IF Len(parts) = 1 THEN parts[1]
    ELSE parts[1] \o sep \o join(sep, Tail(parts))

\* s.splitlines(keepends): scan from position i, the current line starts at start
RECURSIVE splitlinesFrom(_, _, _, _, _)
splitlinesFrom(s, keepends, start, i, acc) ==
    IF i > Len(s)
    THEN IF start <= Len(s) THEN Append(acc, SubSeq(s, start, Len(s))) ELSE acc
    ELSE IF islinebreak(s[i])
    THEN splitlinesFrom(s, keepends, i + 1, i + 1,
                        Append(acc, SubSeq(s, start, IF keepends THEN i ELSE i - 1)))
    ELSE splitlinesFrom(s, keepends, start, i + 1, acc)

splitlines(s, keepends) == splitlinesFrom(s, keepends, 1, 1, <<>>)

\* body evaluated with x bound to a value that is computed once
With(x, Body(_)) == Body(x)

\* [f(x) for x in xs]
RECURSIVE MapSeq(_, _)
MapSeq(F(_), xs) ==
    IF xs = <<>> THEN <<>> ELSE <<F(xs[1])>> \o MapSeq(F, Tail(xs))

\* "\n".join(line.rstrip() for line in s.splitlines()).rstrip()
rstrip_each_line(s) == rstrip(join(<<NL>>, MapSeq(rstrip, splitlines(s, FALSE))))

\* ---------------------------------------------------------------------------
\* Values: a Python object is its runtime type and its content
\* ---------------------------------------------------------------------------
StrVal(s) == [type |-> "str", val |-> s]
IntVal(s) == [type |-> "int", val |-> s]

\* float("nan"), what the YAML scalar .nan loads as
NanVal == [type |-> "float", val |-> <<"n", "a", "n">>]

\* a == b for two Python values: a NaN is not equal to any value, itself
\* included
PyEq(a, b) == a = b /\ a # NanVal

\* Optional values (description: str | None)
None == <<>>
Some(x) == <<x>>

\* ---------------------------------------------------------------------------
\* _TITLE_RE = ^\s*\[(?P<title>\S+)\]\s*(?P<description>.*)$
\* ---------------------------------------------------------------------------

\* end of the run of non-space characters that starts at position i
RECURSIVE nonspaceEnd(_, _)
nonspaceEnd(s, i) ==
    IF i > Len(s) \/ isspace(s[i]) THEN i - 1 ELSE nonspaceEnd(s, i + 1)

\* the last "]" in s[lo..hi], 0 when there is none (greedy \S+ backtracks to it)
RECURSIVE lastBracket(_, _, _)
lastBracket(s, lo, hi) ==
    IF hi < lo THEN 0
    ELSE IF s[hi] = "]" THEN hi
    ELSE lastBracket(s, lo, hi - 1)

\* position of the "]" that closes the title group, 0 when s does not match
TitleClose(s) ==
    IF s # <<>> /\ s[1] = "[" THEN lastBracket(s, 3, nonspaceEnd(s, 2)) ELSE 0

TITLE_RE_match(line) ==
    With(lstrip(line), LAMBDA s :
    With(TitleClose(s), LAMBDA close :
        IF close = 0
        THEN [matched |-> FALSE, title |-> <<>>, description |-> <<>>]
        ELSE [matched |-> TRUE,
              title |-> SubSeq(s, 2, close - 1),
              description |-> lstrip(SubSeq(s, close + 1, Len(s)))]))

\* ---------------------------------------------------------------------------
\* DotFormat.read
\* ---------------------------------------------------------------------------

\* Python indexing of a list: lines[i] with i 0-based, a negative i counts
\* from the end (lines[-1] is the last line)
At(lines, i) == IF i < 0 THEN lines[Len(lines) + i + 1] ELSE lines[i + 1]

\* a slip: the slice starts at the terminator, lines[a - 1:b]
JoinSlice_from_terminator(lines, a, b) == join(<<>>, SubSeq(lines, a, b))

\* "".join(lines[a:b])
JoinSlice(lines, a, b) == join(<<>>, SubSeq(lines, a + 1, b))

\* a slip: the line of the terminator, not of the title line before it
NewTest_terminator_line(i, first_line) ==
    With(TITLE_RE_match(first_line), LAMBDA match :
        [line |-> i + 1,
         title |-> IF match.matched THEN match.title ELSE first_line,
         description |-> IF match.matched THEN Some(match.description) ELSE None,
         blocks |-> <<>>])

\* lines 182-190: [i, title, description], no block appended yet
NewTest(i, first_line) ==
    With(TITLE_RE_match(first_line), LAMBDA match :
        [line |-> i,
         title |-> IF match.matched THEN match.title ELSE first_line,
         description |-> IF match.matched THEN Some(match.description) ELSE None,
         blocks |-> <<>>])

\* the loop body of DotFormat.read, lines 179-199, from line i on;
\* a test under construction is [i, title, description] plus the blocks
\* appended so far
RECURSIVE DotScan(_, _, _, _, _)
DotScan(lines, i, section, last_pos, tests) ==
    IF i >= Len(lines) THEN tests
    ELSE IF rstrip(At(lines, i)) # <<DOT>>
    THEN DotScan(lines, i + 1, section, last_pos, tests)
    ELSE IF section = 0
    THEN DotScan(lines, i + 1, 1, i,
                 Append(tests, NewTest(i, strip(At(lines, i - 1)))))
    ELSE LET n == Len(tests)
             block == JoinSlice(lines, last_pos + 1, i)
             grown == [tests EXCEPT ![n].blocks = Append(@, block)]
         IN  DotScan(lines, i + 1, IF section = 1 THEN 2 ELSE 0, i, grown)

\* ParamTestData(*test, fmt=self, index=index) for a test with both blocks
ParamTestData(test, index) ==
    [line |-> test.line, title |-> test.title, description |-> test.description,
     content |-> StrVal(test.blocks[1]), expected |-> StrVal(test.blocks[2]),
     index |-> index]

\* lines 201-202: the records yielded before the constructor raises TypeError
\* on a test that lacks content or expected (only the last one can)
RECURSIVE YieldTests(_, _)
YieldTests(tests, index) ==
    IF index >= Len(tests) \/ Len(tests[index + 1].blocks) < 2 THEN <<>>
    ELSE <<ParamTestData(tests[index + 1], index)>> \o YieldTests(tests, index + 1)

\* a slip: a test that lacks content or expected is skipped
DotFormat_read_drops_unfinished(text) ==
    With(DotScan(splitlines(text, TRUE), 0, 0, 0, <<>>), LAMBDA tests :
        [raised |-> "", records |-> YieldTests(tests, 0)])

DotFormat_read(text) ==
    With(DotScan(splitlines(text, TRUE), 0, 0, 0, <<>>), LAMBDA tests :
    With(YieldTests(tests, 0), LAMBDA yielded :
        [raised |-> IF Len(yielded) < Len(tests) THEN "TypeError" ELSE "",
         records |-> yielded]))

\* ---------------------------------------------------------------------------
\* assert_expected_strings, diff_strings
\* ---------------------------------------------------------------------------
normalize(s, do_rstrip, do_rstrip_lines) ==
    With(IF do_rstrip THEN rstrip(s) ELSE s, LAMBDA s1 :
        IF do_rstrip_lines THEN rstrip_each_line(s1) ELSE s1)

\* one part of an error message: what it reports, whether it names the
\* fixture path, the record line it names (-1: none), the types it names
Part(kind, path, line, types) ==
    [kind |-> kind, path |-> path, line |-> line, types |-> types]

\* difflib.unified_diff of two different texts when no line is shared: the
\* two file headers, one hunk header and every line of both sides
DiffLines(actual, expected) ==
    3 + Len(splitlines(expected \o <<NL>>, TRUE))
      + Len(splitlines(actual \o <<NL>>, TRUE))

MaxDiffLines == 500

diff_strings(actual, expected, line) ==
    IF DiffLines(actual, expected) <= MaxDiffLines
    THEN <<Part("header", FALSE, -1, <<>>), Part("diff", TRUE, line, <<>>)>>
    ELSE <<Part("header", FALSE, -1, <<>>), Part("diff too big", TRUE, line, <<>>)>>

\* the message of the TypeError of line 202: the arguments the constructor
\* misses for the first test that lacks a block; <<>> when read does not raise
DotFormat_read_message(text) ==
    With(DotScan(splitlines(text, TRUE), 0, 0, 0, <<>>), LAMBDA tests :
    With(Len(YieldTests(tests, 0)), LAMBDA n :
        IF n >= Len(tests) THEN <<>>
        ELSE <<Part("missing arguments", FALSE, -1,
                    IF tests[n + 1].blocks = <<>> THEN <<"content", "expected">>
                    ELSE <<"expected">>)>>))

\* a call's result: the exception it raised ("" when none) and its value
Return(value) == [raised |-> "", value |-> value]
Raise(exc) == [raised |-> exc, value |-> None]

\* assert_expected_strings: None on a match, the error message otherwise.
\* A non-str actual has no rstrip/splitlines (AttributeError) and cannot be
\* concatenated with "\n" in diff_strings (TypeError).
assert_expected_strings(actual, expected, line, do_rstrip, do_rstrip_lines) ==
    IF actual.type # "str"
    THEN IF do_rstrip \/ do_rstrip_lines THEN Raise("AttributeError")
         ELSE Raise("TypeError")
    ELSE With(normalize(actual.val, do_rstrip, do_rstrip_lines), LAMBDA a :
         With(normalize(expected.val, do_rstrip, do_rstrip_lines), LAMBDA e :
             IF a = e THEN Return(None)
             ELSE Return(Some(diff_strings(a, e, line)))))

DotFormat_assert_expected(actual, data, do_rstrip, do_rstrip_lines) ==
    assert_expected_strings(actual, data.expected, data.line, do_rstrip, do_rstrip_lines)

\* ---------------------------------------------------------------------------
\* DotFormat.regen_file
\* ---------------------------------------------------------------------------

\* lines 236-252 for one record: the chunks appended to text
DotEmit(current, index, data_index, actual) ==
    LET head == IF current.description # None
                THEN <<"[">> \o current.title \o <<"]", SP>>
                     \o current.description[1] \o <<NL>>
                ELSE current.title \o <<NL>>
        expected == IF index = data_index THEN actual ELSE current.expected.val
    IN  <<head, <<DOT, NL>>, current.content.val, <<DOT, NL>>, expected>>
        \o (IF endswith(expected, NL) THEN <<>> ELSE << <<NL>> >>)
        \o << <<DOT, NL>>, <<NL>> >>

RECURSIVE DotEmitAll(_, _, _, _)
DotEmitAll(records, index, data_index, actual) ==
    IF index >= Len(records) THEN <<>>
    ELSE DotEmit(records[index + 1], index, data_index, actual)
         \o DotEmitAll(records, index + 1, data_index, actual)

\* lines 253-254: text[:-1], the empty list stays empty
Front(chunks) ==
    IF chunks # <<>> THEN SubSeq(chunks, 1, Len(chunks) - 1) ELSE chunks

\* line 255, self.path.write_text(data): the file is opened for writing,
\* which empties it, then data is encoded and written
write_text(data) ==
    IF encodable(data) THEN [raised |-> "", text |-> data]
    ELSE [raised |-> "UnicodeEncodeError", text |-> <<>>]

\* a slip: the file is opened for writing, and so emptied, before the
\* current file is read and the new text built
DotFormat_regen_file_opens_first(text, data, actual, do_rstrip, do_rstrip_lines) ==
    With(DotFormat_read(text), LAMBDA current :
        IF actual.type # "str" /\ (do_rstrip \/ do_rstrip_lines)
        THEN [raised |-> "AttributeError", text |-> text]
        ELSE IF actual.type # "str" /\ data.index < Len(current.records)
        THEN [raised |-> "AttributeError", text |-> <<>>]
        ELSE IF current.raised # ""
        THEN [raised |-> current.raised, text |-> <<>>]
        ELSE With(DotEmitAll(current.records, 0, data.index,
                             normalize(actual.val, do_rstrip, do_rstrip_lines)),
                  LAMBDA chunks : write_text(join(<<>>, Front(chunks)))))

\* the result names the exception raised ("" when none) and the text the
\* file holds afterwards; the only write is the last statement
DotFormat_regen_file(text, data, actual, do_rstrip, do_rstrip_lines) ==
    With(DotFormat_read(text), LAMBDA current :
        IF actual.type # "str" /\ (do_rstrip \/ do_rstrip_lines)
        THEN [raised |-> "AttributeError", text |-> text]
        ELSE IF actual.type # "str" /\ data.index < Len(current.records)
        THEN [raised |-> "AttributeError", text |-> text]
        ELSE IF current.raised # ""
        THEN [raised |-> current.raised, text |-> text]
        ELSE With(DotEmitAll(current.records, 0, data.index,
                             normalize(actual.val, do_rstrip, do_rstrip_lines)),
                  LAMBDA chunks : write_text(join(<<>>, Front(chunks)))))

\* ---------------------------------------------------------------------------
\* YamlFormat.  The document is what ruamel.yaml composes and loads from the
\* file: whether the top level is a mapping, and its entries in document
\* order, each with the line of its key, its title and its item.  An item is
\* its runtime type and, for a dict, its keys with their values.
\* ---------------------------------------------------------------------------
YamlRecord(entry, index) ==
    [line |-> entry.line, title |-> entry.title,
     description |-> IF "description" \in DOMAIN entry.item.fields
                     THEN Some(entry.item.fields["description"].val) ELSE None,
     content |-> entry.item.fields["content"],
     expected |-> entry.item.fields["expected"],
     index |-> index]

\* the exception an entry raises in lines 280-286, "" when it is yielded
YamlEntryError(entry) ==
    IF entry.item.type # "dict" THEN "TypeError"
    ELSE IF {"content", "expected"} \subseteq DOMAIN entry.item.fields THEN ""
    ELSE "KeyError"

RECURSIVE YamlYield(_, _)
YamlYield(entries, index) ==
    IF index >= Len(entries) \/ YamlEntryError(entries[index + 1]) # "" THEN <<>>
    ELSE <<YamlRecord(entries[index + 1], index)>> \o YamlYield(entries, index + 1)

YamlFormat_read(doc) ==
    IF ~doc.mapping THEN [raised |-> "TypeError", records |-> <<>>]
    ELSE With(YamlYield(doc.entries, 0), LAMBDA yielded :
             [raised |-> IF Len(yielded) < Len(doc.entries)
                         THEN YamlEntryError(doc.entries[Len(yielded) + 1]) ELSE "",
              records |-> yielded])

\* the message of the exception an entry raises in lines 280-286: the type
\* of the item with the line, or the first missing key with the line
YamlEntryMessage(entry) ==
    IF entry.item.type # "dict"
    THEN <<Part("Expected mapping value", FALSE, entry.line, <<entry.item.type>>)>>
    ELSE IF "content" \notin DOMAIN entry.item.fields
    THEN <<Part("Missing key", FALSE, entry.line, <<"content">>)>>
    ELSE <<Part("Missing key", FALSE, entry.line, <<"expected">>)>>

\* the message of the exception YamlFormat.read raises, <<>> when it does not
YamlFormat_read_message(doc) ==
    IF ~doc.mapping THEN <<Part("Expected sequence", FALSE, -1, <<>>)>>
    ELSE With(Len(YamlYield(doc.entries, 0)), LAMBDA n :
             IF n >= Len(doc.entries) THEN <<>>
             ELSE YamlEntryMessage(doc.entries[n + 1]))

YamlFormat_assert_expected(actual, data, do_rstrip, do_rstrip_lines) ==
    LET expected == data.expected
    IN  IF actual.type # expected.type
        THEN Return(Some(<<Part("types", FALSE, -1, <<actual.type, expected.type>>)>>))
        ELSE IF actual.type = "str"
        THEN assert_expected_strings(actual, expected, data.line,
                                     do_rstrip, do_rstrip_lines)
        ELSE IF PyEq(actual, expected) THEN Return(None)
        ELSE Return(Some(<<Part("header", FALSE, -1, <<>>),
                           Part("values", FALSE, -1, <<>>)>>))

\* new[data.title]["expected"] = actual, then the round-trip dump, which
\* writes a character that cannot be encoded as an escape; the keyword
\* arguments are not used
YamlFormat_regen_file(doc, data, actual) ==
    LET hits == {k \in 1..Len(doc.entries) : doc.entries[k].title = data.title}
    IN  IF ~doc.mapping THEN [raised |-> "TypeError", doc |-> doc]
        ELSE IF hits = {} THEN [raised |-> "KeyError", doc |-> doc]
        ELSE LET k == CHOOSE h \in hits : TRUE
             IN  IF doc.entries[k].item.type # "dict"
                 THEN [raised |-> "TypeError", doc |-> doc]
                 ELSE [raised |-> "",
                       doc |-> [doc EXCEPT !.entries[k].item.fields =
                                   [key \in DOMAIN @ \cup {"expected"} |->
                                       IF key = "expected" THEN actual ELSE @[key]]]]

\* ---------------------------------------------------------------------------
\* The format instance bound to the fixture file, and the facade
\* ---------------------------------------------------------------------------

\* fmt.read() of the file as it is now
Read(fmt_name, f) ==
    IF fmt_name = "dot" THEN DotFormat_read(f.text) ELSE YamlFormat_read(f.doc)

\* the message of the exception fmt.read() raises
ReadMessage(fmt_name, f) ==
    IF fmt_name = "dot" THEN DotFormat_read_message(f.text)
    ELSE YamlFormat_read_message(f.doc)

\* a slip: the records read before the exception are returned
create_parameters_partial(fmt_name, f) == Read(fmt_name, f)

\* create_parameters, lines 120-121: list(fmt_inst.read()) is the whole list
\* or the exception and no list
create_parameters(fmt_name, f) ==
    With(Read(fmt_name, f), LAMBDA r :
        IF r.raised # "" THEN [raised |-> r.raised, records |-> <<>>] ELSE r)

\* self.fmt.assert_expected(actual, self, **kwargs)
Compare(fmt_name, actual, data, kwargs) ==
    IF fmt_name = "dot"
    THEN DotFormat_assert_expected(actual, data, kwargs.rstrip, kwargs.rstrip_lines)
    ELSE YamlFormat_assert_expected(actual, data, kwargs.rstrip, kwargs.rstrip_lines)

\* self.fmt.regen_file(self, actual, **kwargs): the exception and the file
Regen(fmt_name, f, data, actual, kwargs) ==
    IF fmt_name = "dot"
    THEN With(DotFormat_regen_file(f.text, data, actual,
                                   kwargs.rstrip, kwargs.rstrip_lines),
              LAMBDA r : [raised |-> r.raised, file |-> [f EXCEPT !.text = r.text]])
    ELSE With(YamlFormat_regen_file(f.doc, data, actual),
              LAMBDA r : [raised |-> r.raised, file |-> [f EXCEPT !.doc = r.doc]])

\* ParamTestData.assert_expected, lines 76-88: what the call raises, the
\* message of the AssertionError, what the comparison reported, whether
\* regen_file ran and how it ended, and the file as the call leaves it
Outcome(raised, message, error, regen, regen_raised, f) ==
    [raised |-> raised, message |-> message, error |-> error,
     regen |-> regen, regen_raised |-> regen_raised, file |-> f]

\* a slip: the call returns normally once the file is regenerated
RaiseMismatch_returns_after_regen(fmt_name, regen, f, data, actual, kwargs, error) ==
    IF ~regen THEN Outcome("AssertionError", error, Some(error), "", "", f)
    ELSE With(Regen(fmt_name, f, data, actual, kwargs), LAMBDA r :
        IF r.raised # ""
        THEN Outcome("AssertionError",
                     error \o <<Part("Regeneration failed", FALSE, -1, <<>>)>>,
                     Some(error), "failed", r.raised, r.file)
        ELSE Outcome("", <<>>, Some(error), "done", "", r.file))

\* a slip: regen_file is called outside the try block
RaiseMismatch_no_except(fmt_name, regen, f, data, actual, kwargs, error) ==
    IF ~regen THEN Outcome("AssertionError", error, Some(error), "", "", f)
    ELSE With(Regen(fmt_name, f, data, actual, kwargs), LAMBDA r :
        IF r.raised # ""
        THEN Outcome(r.raised, <<>>, Some(error), "failed", r.raised, r.file)
        ELSE Outcome("AssertionError",
                     error \o <<Part("REGENERATED FILE", TRUE, -1, <<>>)>>,
                     Some(error), "done", "", r.file))

\* a slip: regen_on_failure is not consulted
RaiseMismatch_always_regen(fmt_name, regen, f, data, actual, kwargs, error) ==
    With(Regen(fmt_name, f, data, actual, kwargs), LAMBDA r :
        IF r.raised # ""
        THEN Outcome("AssertionError",
                     error \o <<Part("Regeneration failed", FALSE, -1, <<>>)>>,
                     Some(error), "failed", r.raised, r.file)
        ELSE Outcome("AssertionError",
                     error \o <<Part("REGENERATED FILE", TRUE, -1, <<>>)>>,
                     Some(error), "done", "", r.file))

\* lines 79-88: the comparison returned the message error
RaiseMismatch(fmt_name, regen, f, data, actual, kwargs, error) ==
    IF ~regen THEN Outcome("AssertionError", error, Some(error), "", "", f)
    ELSE With(Regen(fmt_name, f, data, actual, kwargs), LAMBDA r :
        IF r.raised # ""
        THEN Outcome("AssertionError",
                     error \o <<Part("Regeneration failed", FALSE, -1, <<>>)>>,
                     Some(error), "failed", r.raised, r.file)
        ELSE Outcome("AssertionError",
                     error \o <<Part("REGENERATED FILE", TRUE, -1, <<>>)>>,
                     Some(error), "done", "", r.file))

\* lines 76-78, then lines 79-88
ParamTestData_assert_expected(fmt_name, regen, f, data, actual, kwargs) ==
    With(Compare(fmt_name, actual, data, kwargs), LAMBDA cmp :
        IF cmp.raised # "" THEN Outcome(cmp.raised, <<>>, None, "", "", f)
        ELSE IF cmp.value = None THEN Outcome("", <<>>, None, "", "", f)
        ELSE RaiseMismatch(fmt_name, regen, f, data, actual, kwargs, cmp.value[1]))

\* ---------------------------------------------------------------------------
\* Bounds and inputs
\* ---------------------------------------------------------------------------
MaxRecords == 2
MaxDotLines == 3
MaxCalls == 2

RECURSIVE Repeat(_, _)
Repeat(s, k) == IF k = 0 THEN <<>> ELSE s \o Repeat(s, k - 1)

\* what a test passes as actual: up to MaxDotLines lines that are a lone
\* period, then a last piece; or a value that is not a str
Tails == {<<>>, <<"a">>, <<"a", NL>>, <<"a", SP, NL, "a">>, <<SUR>>}

Actuals ==
    {StrVal(Repeat(<<DOT, NL>>, k) \o t) : k \in 0..MaxDotLines, t \in Tails}
    \cup {IntVal(<<"1">>), NanVal}

Kwargs == [rstrip : BOOLEAN, rstrip_lines : BOOLEAN]

NoKwargs == [rstrip |-> FALSE, rstrip_lines |-> FALSE]

\* the text of a record written by hand: title line, terminator, content,
\* terminator, expected, terminator, and what follows before the next title;
\* term is the terminator line as the record writes it; cut is the number
\* of terminators missing at its end (0: the whole record)
RecordText(r, cut) ==
    r.head \o <<NL>> \o r.term \o r.content
    \o (IF cut >= 2 THEN <<>> ELSE r.term \o r.expected)
    \o (IF cut >= 1 THEN <<>> ELSE r.term \o r.gap)

RECURSIVE BuildText(_, _)
BuildText(rs, cut) ==
    IF rs = <<>> THEN <<>>
    ELSE IF Len(rs) = 1 THEN RecordText(rs[1], cut)
    ELSE RecordText(rs[1], 0) \o BuildText(Tail(rs), cut)

LineBreaks(s) == Cardinality({i \in 1..Len(s) : islinebreak(s[i])})

\* a fixture file as it was written: its text, the number of records it was
\* written with, the 1-based line of each title line, and whether it is
\* well formed (nothing before the first title line, no terminator missing)
Origin(lead, rs, cut) ==
    [text |-> lead \o BuildText(rs, cut),
     n |-> Len(rs),
     title_lines |-> [j \in 1..Len(rs) |->
                        1 + LineBreaks(lead \o BuildText(SubSeq(rs, 1, j - 1), 0))],
     wellformed |-> lead = <<>> /\ cut = 0]

NoOrigin == [text |-> <<>>, n |-> 0, title_lines |-> <<>>, wellformed |-> FALSE]

CanonicalRecord ==
    [head |-> <<"[", "a", "]", SP, "a">>, content |-> <<"a", NL>>,
     expected |-> <<"a", NL>>, gap |-> <<NL>>, term |-> <<DOT, NL>>]

BareRecord ==
    [head |-> <<"a">>, content |-> <<>>, expected |-> <<>>, gap |-> <<>>, term |-> <<DOT, NL>>]

PaddedRecord ==
    [head |-> <<SP, "[", "a", "]", SP, SP, "a", SP>>, content |-> <<"a", NL>>,
     expected |-> <<"a", FF>>, gap |-> <<"a", NL>>, term |-> <<DOT, NL>>]

NoDescriptionRecord ==
    [head |-> <<"[", "a", "]">>, content |-> <<"a", SP, NL>>,
     expected |-> <<"a", SP, NL>>, gap |-> <<NL>>, term |-> <<DOT, NL>>]

\* terminators with trailing whitespace, and blocks with lines that hold a
\* period without being terminators
SpacedRecord ==
    [head |-> <<"a">>, content |-> <<SP, DOT, NL>>,
     expected |-> <<DOT, "a", NL, NL>>, gap |-> <<>>, term |-> <<DOT, SP, NL>>]

DotRecords == {CanonicalRecord, BareRecord}

TextRecords ==
    {CanonicalRecord, BareRecord, PaddedRecord, NoDescriptionRecord, SpacedRecord}

SeqsUpTo(S, n) == UNION {[1..k -> S] : k \in 1..n}

\* the files of the facade runs: well formed
DotOrigins == {Origin(<<>>, rs, 0) : rs \in SeqsUpTo(DotRecords, MaxRecords)}

\* the files of the parser runs: also with a terminator as the first line,
\* and with the last record cut after its second or its first terminator
TextOrigins ==
    {Origin(lead, rs, cut) : lead \in {<<>>, <<DOT, NL>>},
                             rs \in SeqsUpTo(TextRecords, MaxRecords),
                             cut \in 0..2}

\* the items of a structured document
StrItem ==
    [type |-> "dict", fields |-> [content |-> StrVal(<<"a">>),
                                  expected |-> StrVal(<<"a", NL>>),
                                  description |-> StrVal(<<"a">>)]]

IntItem ==
    [type |-> "dict", fields |-> [content |-> StrVal(<<"a">>),
                                  expected |-> IntVal(<<"2">>)]]

NanItem ==
    [type |-> "dict", fields |-> [content |-> StrVal(<<"a">>),
                                  expected |-> NanVal]]

NoExpectedItem == [type |-> "dict", fields |-> [content |-> StrVal(<<"a">>)]]

NoContentItem == [type |-> "dict", fields |-> [expected |-> StrVal(<<"a">>)]]

ScalarItem == [type |-> "str", fields |-> <<>>]

\* lines an item takes in the document: its key, then one per key of a dict
ItemLines(item) == 1 + Cardinality(DOMAIN item.fields)

RECURSIVE LineOf(_, _)
LineOf(items, k) ==
    IF k = 1 THEN 1 ELSE LineOf(items, k - 1) + ItemLines(items[k - 1])

\* titles are the distinct keys of the top-level mapping
BuildDoc(items) ==
    [mapping |-> TRUE,
     entries |-> [k \in 1..Len(items) |->
                    [line |-> LineOf(items, k), title |-> Repeat(<<"a">>, k),
                     item |-> items[k]]]]

NoDoc == [mapping |-> FALSE, entries |-> <<>>]

\* documents of valid entries, documents whose last entry is not valid, and
\* a document whose top level is not a mapping
YamlDocs ==
    {BuildDoc(items) : items \in SeqsUpTo({StrItem, IntItem, NanItem}, MaxRecords)}
    \cup {BuildDoc([k \in 1..n |-> IF k < n THEN StrItem ELSE bad]) :
             n \in 1..MaxRecords, bad \in {NoExpectedItem, NoContentItem, ScalarItem}}
    \cup {NoDoc}

\* ---------------------------------------------------------------------------
\* State
\* ---------------------------------------------------------------------------
VARIABLES
    fmt,               \* "dot" or "yaml": the format instance create_parameters made
    regen_on_failure,  \* FormatAbstract.regen_on_failure
    file,              \* the fixture file at FormatAbstract.path
    origin,            \* the file as it was written before the run
    body,              \* the test function: the actual and keyword arguments it passes
    file_params,       \* what create_parameters returned: the records, or the exception
    last,              \* the last call and how it ended
    regens,            \* indices whose assert_expected regenerated the file since the load
    calls              \* assert_expected and regen_file calls made so far

vars == <<fmt, regen_on_failure, file, origin, body, file_params, last, regens, calls>>

NoCall ==
    [op |-> "", index |-> -1, raised |-> "", message |-> <<>>, error |-> None,
     regen |-> "", regen_raised |-> ""]

InitCommon ==
    /\ file_params = [loaded |-> FALSE, raised |-> "", records |-> <<>>]
    /\ last = NoCall
    /\ regens = {}
    /\ calls = 0

\* a test module whose function passes one actual and one set of keyword
\* arguments for every record, run with or without --regen-file-failure
Init ==
    /\ \/ /\ fmt = "dot"
          /\ origin \in DotOrigins
          /\ file = [text |-> origin.text, doc |-> NoDoc]
       \/ /\ fmt = "yaml"
          /\ origin = NoOrigin
          /\ file \in [text : {<<>>}, doc : YamlDocs]
    /\ regen_on_failure \in BOOLEAN
    /\ body \in [actual : Actuals, kwargs : Kwargs]
    /\ InitCommon

\* create_parameters(path, fmt, regen_on_failure=...)
Load ==
    /\ \E r \in {create_parameters(fmt, file)} :
           /\ file_params' = [loaded |-> TRUE, raised |-> r.raised,
                               records |-> r.records]
           /\ last' = [NoCall EXCEPT !.op = "load", !.raised = r.raised,
                                     !.message = ReadMessage(fmt, file)]
    /\ regens' = {}
    /\ UNCHANGED <<fmt, regen_on_failure, file, origin, body, calls>>

\* the test function runs for the record at index i:
\* file_params.assert_expected(actual, **kwargs)
AssertExpected(i) ==
    /\ file_params.loaded
    /\ calls < MaxCalls
    /\ \E r \in {ParamTestData_assert_expected(fmt, regen_on_failure, file,
                       file_params.records[i + 1], body.actual, body.kwargs)} :
           /\ file' = r.file
           /\ last' = [op |-> "assert_expected", index |-> i, raised |-> r.raised,
                       message |-> r.message, error |-> r.error,
                       regen |-> r.regen, regen_raised |-> r.regen_raised]
           /\ regens' = IF r.regen = "done" THEN regens \cup {i} ELSE regens
    /\ calls' = calls + 1
    /\ UNCHANGED <<fmt, regen_on_failure, origin, body, file_params>>

Next ==
    \/ Load
    \/ \E i \in 0..(Len(file_params.records) - 1) : AssertExpected(i)

Spec == Init /\ [][Next]_vars

\* ---------------------------------------------------------------------------
\* The text format alone: files of every layout, parsed and regenerated by
\* direct calls of the format instance
\* ---------------------------------------------------------------------------
InitText ==
    /\ fmt = "dot"
    /\ origin \in TextOrigins
    /\ file = [text |-> origin.text, doc |-> NoDoc]
    /\ regen_on_failure = FALSE
    /\ body = [actual |-> StrVal(<<>>), kwargs |-> NoKwargs]
    /\ InitCommon

\* data.fmt.regen_file(data, data.expected) for the loaded record at index k
RegenOwn(k) ==
    /\ file_params.loaded
    /\ calls < MaxCalls
    /\ \E r \in {Regen(fmt, file, file_params.records[k + 1],
                       file_params.records[k + 1].expected, NoKwargs)} :
           /\ file' = r.file
           /\ last' = [NoCall EXCEPT !.op = "regen_file", !.index = k,
                                     !.raised = r.raised,
                                     !.regen = IF r.raised = "" THEN "done"
                                               ELSE "failed",
                                     !.regen_raised = r.raised]
    /\ calls' = calls + 1
    /\ UNCHANGED <<fmt, regen_on_failure, origin, body, file_params, regens>>

NextText ==
    \/ Load
    \/ \E k \in 0..(Len(file_params.records) - 1) : RegenOwn(k)

SpecText == InitText /\ [][NextText]_vars

\* ---------------------------------------------------------------------------
\* Properties
\* ---------------------------------------------------------------------------

\* the file f is loaded again and the record at index i is compared against
\* the test's actual with the test's keyword arguments: a match
MatchesReloaded(f, i) ==
    LET r == create_parameters(fmt, f)
    IN  /\ r.raised = ""
        /\ i < Len(r.records)
        /\ Compare(fmt, body.actual, r.records[i + 1], body.kwargs) = Return(None)

\* the last call was an assert_expected whose comparison reported a mismatch
\* and whose regen_file ran to its end
Regenerated == last.op = "assert_expected" /\ last.regen = "done"

\* C1: after a mismatch has made regen_file rewrite the file for a record,
\* loading the file again and comparing the record at the same index against
\* the same actual with the same options is a match.
C1_RegenThenMatch == Regenerated => MatchesReloaded(file, last.index)

\* C2: a regeneration changes nothing but the target record's expected:
\* parsing the file again gives as many records, every other record with the
\* title, description, content and expected it had before the call, and the
\* target record with the title, description and content it had.
C2_OnlyTargetExpected ==
    [][(last'.op = "assert_expected" /\ last'.regen = "done") =>
         LET before == Read(fmt, file)
             after == Read(fmt, file')
         IN  /\ after.raised = ""
             /\ Len(after.records) = Len(before.records)
             /\ \A j \in 1..Len(before.records) :
                   /\ after.records[j].title = before.records[j].title
                   /\ after.records[j].description = before.records[j].description
                   /\ after.records[j].content = before.records[j].content
                   /\ j # last'.index + 1 =>
                         after.records[j].expected = before.records[j].expected]_vars

\* C3: when several records of one load have each failed and regenerated the
\* file, the file loaded again matches the actual at every one of their
\* indices: no later regeneration undoes an earlier one.
C3_RegensStayConsistent ==
    Cardinality(regens) >= 2 => \A i \in regens : MatchesReloaded(file, i)

\* the last call, made right after a load of the file as it still was, was
\* regen_file for a record with that record's own expected, and it returned
OwnRegenDone ==
    /\ last.op = "regen_file"
    /\ last.regen = "done"
    /\ calls = 1

NoPeriodTitle(records) == \A j \in 1..Len(records) : records[j].title # <<DOT>>

\* the expected block as regen_file writes it back: a newline is appended
\* when it does not end with one
Padded(v) ==
    IF v.val # <<>> /\ v.val[Len(v.val)] = NL THEN v ELSE StrVal(v.val \o <<NL>>)

C5_RegenTwiceSameFile ==
    [][(/\ Regenerated
        /\ last'.op = "assert_expected"
        /\ last'.regen = "done"
        /\ last'.index = last.index) => file' = file]_vars

\* C6: a well-formed text file written with N records loads as exactly N
\* records, in file order, with index 0..N-1 and strictly increasing lines,
\* each the 1-based line number of the record's title line; parsing the
\* unmodified file again gives the same indices.
C6_LoadWellFormed ==
    (file_params.loaded /\ calls = 0 /\ origin.wellformed) =>
        /\ file_params.raised = ""
        /\ Len(file_params.records) = origin.n
        /\ \A j \in 1..Len(file_params.records) :
              /\ file_params.records[j].index = j - 1
              /\ file_params.records[j].line = origin.title_lines[j]
              /\ j > 1 => file_params.records[j - 1].line < file_params.records[j].line
        /\ [j \in 1..Len(file_params.records) |-> file_params.records[j].index]
             = [j \in 1..Len(Read(fmt, file).records) |->
                   Read(fmt, file).records[j].index]

\* a well-formed file of two records, one with no blank line before the next
\* title line, has been loaded
C6_Witness ==
    /\ file_params.loaded /\ calls = 0 /\ origin.wellformed
    /\ origin.n >= 2
    /\ origin.title_lines[2] < 8

\* what the comparison reports for the last assert_expected call
LastCompare ==
    Compare(fmt, body.actual, file_params.records[last.index + 1], body.kwargs)

\* C7: assert_expected returns normally exactly when the comparison reports
\* a match, and raises an AssertionError on every mismatch, with
\* regeneration disabled or enabled, also when the regeneration succeeded.
C7_ReturnsIffMatch ==
    last.op = "assert_expected" =>
        /\ last.raised = "" <=> LastCompare = Return(None)
        /\ (LastCompare.raised = "" /\ LastCompare.value # None) =>
              last.raised = "AssertionError"

\* a mismatch regenerated the file and the call still raised
C7_Witness == Regenerated /\ last.raised = "AssertionError"

\* C8: when regen_file raises after a mismatch, assert_expected raises one
\* AssertionError whose message is the mismatch message followed by the
\* regeneration-failure note; the exception of regen_file does not escape.
C8_RegenFailureFolded ==
    (last.op = "assert_expected" /\ last.regen = "failed") =>
        /\ last.raised = "AssertionError"
        /\ LastCompare.value # None
        /\ last.message = LastCompare.value[1]
                            \o <<Part("Regeneration failed", FALSE, -1, <<>>)>>

\* regen_file raised TypeError while reading the file a previous
\* regeneration had left with an unfinished record
C8_Witness ==
    /\ last.op = "assert_expected"
    /\ last.regen = "failed"
    /\ last.regen_raised = "TypeError"

\* C9: the file changes only in an assert_expected call whose comparison
\* reported a mismatch, made with regeneration enabled; a load, a call that
\* matches and a call with regeneration disabled leave it as it was.
C9_WrittenOnlyOnMismatch ==
    [][file' # file =>
         /\ last'.op = "assert_expected"
         /\ regen_on_failure
         /\ LET cmp == Compare(fmt, body.actual,
                               file_params.records[last'.index + 1], body.kwargs)
            IN  cmp.raised = "" /\ cmp.value # None]_vars

\* with regeneration enabled, a call matched a file that an earlier call of
\* the run had regenerated
C9_Witness ==
    /\ regen_on_failure
    /\ last.op = "assert_expected"
    /\ last.raised = ""
    /\ file.text # origin.text

\* C10: in both formats, an actual whose type differs from the type of the
\* expected value is reported as a mismatch that names both types, for every
\* setting of rstrip and rstrip_lines, and the comparison raises nothing.
C10_TypeMismatchReported ==
    (/\ last.op = "assert_expected"
     /\ body.actual.type # file_params.records[last.index + 1].expected.type) =>
        LastCompare =
            Return(Some(<<Part("types", FALSE, -1,
                               <<body.actual.type,
                                 file_params.records[last.index + 1].expected.type>>)>>))

\* C11: every AssertionError the facade raises on a mismatch has a message
\* that names the fixture file path and the line of the record, for a string
\* diff, a diff too big to show, a type mismatch and unequal non-str values.
C11_FailureNamesPathAndLine ==
    (last.op = "assert_expected" /\ last.raised = "AssertionError") =>
        /\ \E k \in 1..Len(last.message) : last.message[k].path
        /\ \E k \in 1..Len(last.message) :
              last.message[k].line = file_params.records[last.index + 1].line

\* the files written without a leading terminator whose last record lacks
\* its third terminator, or its second and third
CutOrigins ==
    {Origin(<<>>, rs, cut) : rs \in SeqsUpTo(TextRecords, MaxRecords), cut \in 1..2}

\* C12: loading a text file that ends after the first or the second
\* terminator of its last record raises, and no record is returned: not the
\* unfinished record, and not the finished records before it.
C12_UnfinishedRecordRejected ==
    (file_params.loaded /\ file.text = origin.text /\ origin \in CutOrigins) =>
        /\ file_params.raised = "TypeError"
        /\ file_params.records = <<>>

\* a file of two records, the second one cut, has been loaded
C12_Witness ==
    /\ file_params.loaded
    /\ origin \in CutOrigins
    /\ origin.n = 2
    /\ Len(Read(fmt, file).records) = 1

\* C13: loading a text file whose first line is a terminator raises; no
\* record is returned whose title comes from another line than the one
\* right before its first terminator.
C13_LeadingTerminatorRejected ==
    (/\ file_params.loaded
     /\ file.text = origin.text
     /\ Len(origin.text) >= 2
     /\ SubSeq(origin.text, 1, 2) = <<DOT, NL>>) =>
        file_params.raised # ""

\* C14: comparing a record's own expected value, passed as actual, against
\* that record reports a match, in both formats and for every setting of
\* rstrip and rstrip_lines.
C14_CompareReflexive ==
    (/\ last.op = "assert_expected"
     /\ body.actual = file_params.records[last.index + 1].expected) =>
        LastCompare = Return(None)

\* C15: in both formats, after a regeneration for a str actual that holds
\* no terminator line, the expected of the target record in the file is the
\* actual normalised by the rstrip and rstrip_lines of the failed
\* comparison (in the text format, with the newline that ends the block).
C15_RegenStoresNormalized ==
    [][(/\ last'.op = "assert_expected"
        /\ last'.regen = "done"
        /\ body.actual.type = "str"
        /\ body.actual.val \in Tails) =>
         LET norm == normalize(body.actual.val, body.kwargs.rstrip,
                               body.kwargs.rstrip_lines)
             after == Read(fmt, file')
         IN  /\ after.raised = ""
             /\ last'.index < Len(after.records)
             /\ after.records[last'.index + 1].expected
                   \in {StrVal(norm), StrVal(norm \o <<NL>>)}]_vars

\* C16: a well-formed text file loads, by one forward scan in which a line
\* is a terminator iff it is a period after trailing whitespace is stripped,
\* as one record per written record: its title comes from the stripped line
\* right before its first terminator, its content is exactly what was
\* written between its first and second terminators and its expected
\* exactly what was written between its second and third, nothing trimmed;
\* what follows the third terminator belongs to no record.
C16_ScanVerbatimBlocks ==
    (file_params.loaded /\ file.text = origin.text /\ origin.wellformed) =>
        \A rs \in SeqsUpTo(TextRecords, MaxRecords) :
            origin = Origin(<<>>, rs, 0) =>
                /\ file_params.raised = ""
                /\ Len(file_params.records) = Len(rs)
                /\ \A j \in 1..Len(rs) :
                      LET t == TITLE_RE_match(strip(rs[j].head))
                      IN  /\ file_params.records[j].title =
                                IF t.matched THEN t.title ELSE strip(rs[j].head)
                          /\ file_params.records[j].content = StrVal(rs[j].content)
                          /\ file_params.records[j].expected = StrVal(rs[j].expected)

\* a file was loaded whose second record has terminators with trailing
\* whitespace and a content line that holds a period after a space, and
\* whose first record is followed by a line that belongs to no record
C16_Witness ==
    /\ file_params.loaded /\ file.text = origin.text
    /\ origin = Origin(<<>>, <<PaddedRecord, SpacedRecord>>, 0)
    /\ Len(file_params.records) = 2
    /\ file_params.records[2].content = StrVal(<<SP, DOT, NL>>)

\* the entry at position k of the document is not a mapping, or lacks the
\* content key or the expected key
BadEntry(doc, k) ==
    \/ doc.entries[k].item.type # "dict"
    \/ ~({"content", "expected"} \subseteq DOMAIN doc.entries[k].item.fields)

\* C17: loading a structured document with an entry that is not a mapping,
\* or lacks content or expected, raises an exception whose message names the
\* line of the first such entry and its missing key (or the type of its
\* value); no record is returned, also when the entries before it are valid.
C17_BadEntryRejected ==
    (/\ last.op = "load"
     /\ fmt = "yaml"
     /\ file.doc.mapping
     /\ \E k \in 1..Len(file.doc.entries) : BadEntry(file.doc, k)) =>
        LET first == CHOOSE k \in 1..Len(file.doc.entries) :
                        /\ BadEntry(file.doc, k)
                        /\ \A h \in 1..(k - 1) : ~BadEntry(file.doc, h)
            entry == file.doc.entries[first]
        IN  /\ last.raised \in {"TypeError", "KeyError"}
            /\ file_params.records = <<>>
            /\ Len(last.message) = 1
            /\ last.message[1].line = entry.line
            /\ Len(last.message[1].types) = 1
            /\ IF entry.item.type # "dict"
               THEN last.message[1].types[1] = entry.item.type
               ELSE last.message[1].types[1]
                      \in {"content", "expected"} \ DOMAIN entry.item.fields

\* a document whose first entry is valid and whose second entry lacks a key
\* has been loaded
C17_Witness ==
    /\ last.op = "load"
    /\ fmt = "yaml"
    /\ Len(file.doc.entries) = 2
    /\ last.raised = "KeyError"
    /\ last.message[1].line > 1

\* C18: after a regeneration of a text file for a record and a str actual,
\* parsing the file again succeeds and gives as many records as before the
\* call, each with the index and the title it had.
C18_RegenKeepsStructure ==
    [][(/\ fmt = "dot"
        /\ last'.op = "assert_expected"
        /\ last'.regen = "done"
        /\ body.actual.type = "str") =>
         LET before == DotFormat_read(file.text)
             after == DotFormat_read(file'.text)
         IN  /\ after.raised = ""
             /\ [j \in 1..Len(after.records) |->
                    <<after.records[j].index, after.records[j].title>>]
                = [j \in 1..Len(before.records) |->
                    <<before.records[j].index, before.records[j].title>>]]_vars

\* C19 as stated: every call of DotFormat.regen_file that raises leaves the
\* file exactly as it was before the call.
C19_FailedRegenKeepsFile ==
    [][(/\ fmt = "dot"
        /\ last'.op = "assert_expected"
        /\ last'.regen = "failed") => file' = file]_vars

\* C19 as amended: a call of DotFormat.regen_file that raises while it reads
\* the current file or builds the new text, before the write of line 255,
\* leaves the file exactly as it was before the call.
C19_FailedBuildKeepsFile ==
    [][(/\ fmt = "dot"
        /\ last'.op = "assert_expected"
        /\ last'.regen = "failed"
        /\ last'.regen_raised # "UnicodeEncodeError") => file' = file]_vars

\* in the text format, the second call of a run found a file that the first
\* call had regenerated and that no longer parses, and its regen_file raised
C19_Witness ==
    /\ fmt = "dot"
    /\ last.op = "assert_expected"
    /\ last.regen = "failed"
    /\ file.text # origin.text
    /\ DotFormat_read(file.text).raised = "TypeError"

====
